---- MODULE Spec2Model ----
(***************************************************************************)
(* kondis: the Equipment trait, the simulated NonBluetoothDevice, the      *)
(* equipment factory and the FTMS control op codes.                        *)
(*                                                                         *)
(* Three specifications share the module:                                  *)
(*   Spec       the operations of a constructed NonBluetoothDevice         *)
(*   SpecNew    construction: Equipment::new and equipment_type_to_equipment*)
(*   SpecCodec  the control-point command encoding                         *)
(***************************************************************************)
EXTENDS Integers, Sequences, FiniteSets, TLC

VARIABLES
    now,          \* the monotonic clock (std::time::Instant), in ticks
    device,       \* the NonBluetoothDevice the operations are called on
    result,       \* what the last Equipment operation returned
    stdout,       \* the lines println! has written, oldest first
    shutdown_rx,  \* the number of () values waiting in the shutdown channel
    pc,           \* where the construction call stands
    call,         \* the construction call being made
    conn,         \* the connection state machine of a transport-backed variant
    new_result,   \* what the variant's new() returned
    made,         \* what the construction call returned to its caller
    cmd,          \* the control command being encoded
    wire,         \* its bytes on the wire
    decoded       \* what the receiver decoded from the bytes

vars == <<now, device, result, stdout, shutdown_rx, pc, call, conn, new_result,
          made, cmd, wire, decoded>>

deviceVars == <<now, device, result, stdout>>
newVars == <<shutdown_rx, pc, call, conn, new_result, made>>
codecVars == <<cmd, wire, decoded>>

----------------------------------------------------------------------------
(* Bounds of the model. *)

\* the clock has this many ticks to the second
TicksPerSec == 2
\* instants 0..SmallTicks, and as many past the u16 wrap, are visited
SmallTicks == 1
\* the largest max_level a device is constructed with
MaxLevel == 2
\* operations that print are taken while stdout holds fewer lines than this
MaxLog == 2
\* the shutdown channel holds at most this many values
MaxSignals == 2
\* command parameters within this distance of each edge are encoded
CodecSpan == 2

(* Program constants. *)

I16Min == -32768
I16Max == 32767
U16Range == 65536
U8Range == 256
F32Mantissa == 16777216

----------------------------------------------------------------------------
(* Time: std::time::Instant and Duration. *)

WrapTick == U16Range * TicksPerSec

Instants ==
    (0 .. SmallTicks) \cup {WrapTick - 1} \cup {WrapTick + k : k \in 0 .. SmallTicks}

\* Instant::elapsed: the Duration from t0 to the clock's reading t
elapsed(t0, t) == t - t0

\* Duration::as_secs: the whole seconds, the fraction dropped
as_secs(d) == d \div TicksPerSec

\* `as u16`: the low 16 bits
as_u16(n) == n % U16Range

RECURSIVE RoundToUnit(_, _)
RoundToUnit(n, unit) ==
    IF n < F32Mantissa * unit
    THEN LET q == n \div unit
             r == n % unit
         IN  IF 2 * r < unit THEN q * unit
             ELSE IF 2 * r > unit THEN (q + 1) * unit
             ELSE IF q % 2 = 0 THEN q * unit ELSE (q + 1) * unit
    ELSE RoundToUnit(n, 2 * unit)

\* as_secs_f32 with the seconds cut to 16 bits first
as_secs_f32_Wrapping(d) == d % WrapTick

\* Duration::as_secs_f32, as the number of ticks the f32 stands for: the
\* nearest value with a 24-bit significand, ties to even
as_secs_f32(d) == RoundToUnit(d, 1)

----------------------------------------------------------------------------
(* Values. *)

SimName == "some hypothetical non-bluetooth device"

Levels == {-1, 0, 1, MaxLevel}

Inputs == {I16Min, 0, 1, MaxLevel, MaxLevel + 1, I16Max}

\* struct NonBluetoothDevice
NonBluetoothDevice(max_level, t) ==
    [name |-> SimName, max_level |-> max_level, start_time |-> t]

\* anyhow::Error: the message and the bound formatted into it
NoError == [msg |-> "", bound |-> 0]
Error(msg, bound) == [msg |-> msg, bound |-> bound]

\* struct FTMSData
FTMSData(speed, cadence, distance, resistance, power, calories, heart_rate, time) ==
    [speed |-> speed, cadence |-> cadence, distance |-> distance,
     resistance |-> resistance, power |-> power, calories |-> calories,
     heart_rate |-> heart_rate, time |-> time]

\* a line of stdout: the format string and its arguments
Line(text, name, value, at) == [text |-> text, name |-> name, value |-> value, at |-> at]

\* a return value: Result<T>, T being (), bool or Option<FTMSData>
Ok(flag, data) == [ok |-> TRUE, err |-> NoError, flag |-> flag, data |-> data]
Err(e) == [ok |-> FALSE, err |-> e, flag |-> FALSE, data |-> <<>>]

\* what Equipment::new leaves: Result<Self>, and the channel after the call
NewOutcome(ok, val, err, rx) == [ok |-> ok, val |-> val, err |-> err, rx |-> rx]

\* an operation's outcome: the device after it, its return value, its output
Outcome(self, ret, out) == [self |-> self, ret |-> ret, out |-> out]

----------------------------------------------------------------------------
(* impl Equipment for NonBluetoothDevice. *)

\* new that polls the channel as the transport-backed variants do
NonBluetoothDevice_new_Polls(max_level, rx, t) ==
    IF rx > 0
    THEN NewOutcome(FALSE, NonBluetoothDevice(0, 0), "cancelled", rx - 1)
    ELSE NewOutcome(TRUE, NonBluetoothDevice(max_level, t), "", rx)

\* new ignores the receiver: rx is handed back as it came
NonBluetoothDevice_new(max_level, rx, t) ==
    NewOutcome(TRUE, NonBluetoothDevice(max_level, t), "", rx)

\* connect that reports control as not acquired
connect_ReportsFalse(self) ==
    Outcome(self, Ok(FALSE, <<>>), <<Line("Connecting to", self.name, 0, 0)>>)

connect(self) ==
    Outcome(self, Ok(TRUE, <<>>), <<Line("Connecting to", self.name, 0, 0)>>)

disconnect(self) ==
    Outcome(self, Ok(FALSE, <<>>), <<Line("Disconnecting from", self.name, 0, 0)>>)

\* set_target_cadence that checks the upper bound alone
set_target_cadence_NoLowerBound(self, rpm, t) ==
    IF rpm > self.max_level
    THEN Outcome(self, Err(Error("RPM must be between 1 and", self.max_level)), <<>>)
    ELSE Outcome(self, Ok(FALSE, <<>>),
                 <<Line("Setting target RPM on", self.name, rpm,
                        as_secs_f32(elapsed(self.start_time, t)))>>)

set_target_cadence(self, rpm, t) ==
    IF ~(rpm \in 1 .. self.max_level)
    THEN Outcome(self, Err(Error("RPM must be between 1 and", self.max_level)), <<>>)
    ELSE LET seconds_elapsed == as_secs_f32(elapsed(self.start_time, t))
         IN  Outcome(self, Ok(FALSE, <<>>),
                     <<Line("Setting target RPM on", self.name, rpm, seconds_elapsed)>>)

\* set_target_power with the half-open range 1..max_level
set_target_power_ExclusiveRange(self, watts, t) ==
    IF ~(watts \in 1 .. self.max_level - 1)
    THEN Outcome(self, Err(Error("Watts must be between 1 and", self.max_level)), <<>>)
    ELSE Outcome(self, Ok(FALSE, <<>>),
                 <<Line("Setting level on", self.name, watts,
                        as_secs_f32(elapsed(self.start_time, t)))>>)

set_target_power(self, watts, t) ==
    IF ~(watts \in 1 .. self.max_level)
    THEN Outcome(self, Err(Error("Watts must be between 1 and", self.max_level)), <<>>)
    ELSE LET seconds_elapsed == as_secs_f32(elapsed(self.start_time, t))
         IN  Outcome(self, Ok(FALSE, <<>>),
                     <<Line("Setting level on", self.name, watts, seconds_elapsed)>>)

\* read that reports the device's bound as its resistance
read_ReportsLevel(self, t) ==
    Outcome(self,
            Ok(FALSE, <<FTMSData(0, 0, 0, self.max_level, 0, 0, 0,
                                 as_u16(as_secs(elapsed(self.start_time, t))))>>),
            <<>>)

read(self, t) ==
    Outcome(self,
            Ok(FALSE, <<FTMSData(0, 0, 0, 0, 0, 0, 0,
                                 as_u16(as_secs(elapsed(self.start_time, t))))>>),
            <<>>)

----------------------------------------------------------------------------
(* The operations as steps of a caller that serialises its calls. *)

Returned(op, arg, r) ==
    /\ Len(stdout \o r.out) <= MaxLog
    /\ device' = r.self
    /\ result' = [op |-> op, arg |-> arg, ret |-> r.ret]
    /\ stdout' = stdout \o r.out
    /\ UNCHANGED now

Connect == Returned("connect", 0, connect(device)) /\ UNCHANGED <<newVars, codecVars>>

Disconnect ==
    Returned("disconnect", 0, disconnect(device)) /\ UNCHANGED <<newVars, codecVars>>

SetTargetCadence(rpm) ==
    /\ Returned("set_target_cadence", rpm, set_target_cadence(device, rpm, now))
    /\ UNCHANGED <<newVars, codecVars>>

SetTargetPower(watts) ==
    /\ Returned("set_target_power", watts, set_target_power(device, watts, now))
    /\ UNCHANGED <<newVars, codecVars>>

Read == Returned("read", 0, read(device, now)) /\ UNCHANGED <<newVars, codecVars>>

\* the clock moves on, never back
Tick ==
    /\ \E t \in Instants : t > now /\ now' = t
    /\ UNCHANGED <<device, result, stdout, newVars, codecVars>>

----------------------------------------------------------------------------
(* Spec: a device fresh from NonBluetoothDevice::new, then any calls. *)

NoCall == [via |-> "", kind |-> "", max_level |-> 0, rx0 |-> 0]
NoDevice == NonBluetoothDevice(0, 0)
NoResult == [ok |-> FALSE, val |-> NoDevice, err |-> "", rx |-> 0]
NoMade == [tag |-> "", kind |-> "", val |-> NoDevice, err |-> ""]
NoCommand == [tag |-> "", param |-> 0]

NewIdle ==
    /\ shutdown_rx = 0
    /\ pc = "Idle"
    /\ call = NoCall
    /\ conn = "Disconnected"
    /\ new_result = NoResult
    /\ made = NoMade

CodecIdle ==
    /\ cmd = NoCommand
    /\ wire = <<>>
    /\ decoded = <<>>

Init ==
    /\ now \in 0 .. SmallTicks
    /\ \E max_level \in Levels :
           device = NonBluetoothDevice_new(max_level, 0, now).val
    /\ result = [op |-> "new", arg |-> device.max_level, ret |-> Ok(FALSE, <<>>)]
    /\ stdout = <<>>
    /\ NewIdle
    /\ CodecIdle

Next ==
    \/ Connect
    \/ Disconnect
    \/ \E rpm \in Inputs : SetTargetCadence(rpm)
    \/ \E watts \in Inputs : SetTargetPower(watts)
    \/ Read
    \/ Tick

Spec == Init /\ [][Next]_vars

----------------------------------------------------------------------------
(* Construction.  The transport-backed variants (Iconsole0028Bike,         *)
(* DebugBike) live in modules the source tree does not hold; their new()   *)
(* follows the connection state machine of the specification.              *)

EquipmentType == {"Iconsole0028Bike", "DebugBike", "NonBluetoothDevice"}

TransportBacked == {"Iconsole0028Bike", "DebugBike"}

\* a connected transport-backed device: its identity, its bound, its session start
TransportDevice(kind, max_level, t) ==
    [name |-> kind, max_level |-> max_level, start_time |-> t]

\* Receiver::try_recv: takes one waiting value, if there is one
try_recv(rx) ==
    IF rx > 0 THEN [got |-> TRUE, rx |-> rx - 1] ELSE [got |-> FALSE, rx |-> rx]

\* a discovery iteration that looks at the peripherals before the signal
discovery_poll_MatchFirst(rx, found) ==
    IF found
    THEN [conn |-> "Found", rx |-> rx, err |-> ""]
    ELSE IF rx > 0
         THEN [conn |-> "Disconnected", rx |-> rx - 1, err |-> "cancelled"]
         ELSE [conn |-> "Discovering", rx |-> rx, err |-> ""]

\* one iteration of the discovery loop: the cancellation signal first, then
\* the peripheral list (found: a peripheral matches the variant's predicate)
discovery_poll(rx, found) ==
    LET signal == try_recv(rx)
    IN  IF signal.got
        THEN [conn |-> "Disconnected", rx |-> signal.rx, err |-> "cancelled"]
        ELSE [conn |-> IF found THEN "Found" ELSE "Discovering",
              rx |-> signal.rx, err |-> ""]

\* Found -> Connected: the transport-level connect, reported and not retried
transport_connect(kind, max_level, rx, linked, t) ==
    IF linked
    THEN NewOutcome(TRUE, TransportDevice(kind, max_level, t), "", rx)
    ELSE NewOutcome(FALSE, NoDevice, "transport", rx)

\* the factory's three arms: each returns None on is_err and unwraps otherwise
Boxed(kind, equip) ==
    IF equip.ok
    THEN [tag |-> "Some", kind |-> kind, val |-> equip.val, err |-> ""]
    ELSE [tag |-> "Panic", kind |-> kind, val |-> NoDevice, err |-> equip.err]

None == [tag |-> "None", kind |-> "", val |-> NoDevice, err |-> ""]

is_err(equip) == ~equip.ok

\* the factory with the is_err check missing from the DebugBike arm
equipment_type_to_equipment_Unchecked(equipment_type, equip) ==
    IF equipment_type = "DebugBike" \/ ~is_err(equip)
    THEN Boxed(equipment_type, equip)
    ELSE None

equipment_type_to_equipment(equipment_type, equip) ==
    CASE equipment_type = "Iconsole0028Bike" ->
             IF is_err(equip) THEN None ELSE Boxed(equipment_type, equip)
      [] equipment_type = "DebugBike" ->
             IF is_err(equip) THEN None ELSE Boxed(equipment_type, equip)
      [] equipment_type = "NonBluetoothDevice" ->
             IF is_err(equip) THEN None ELSE Boxed(equipment_type, equip)

\* a direct caller of new() holds the Result itself
Direct(kind, equip) ==
    [tag |-> IF equip.ok THEN "Ok" ELSE "Err", kind |-> kind, val |-> equip.val,
     err |-> equip.err]

\* the sender's side of the channel
SendShutdown ==
    /\ shutdown_rx < MaxSignals
    /\ shutdown_rx' = shutdown_rx + 1
    /\ UNCHANGED <<pc, call, conn, new_result, made, deviceVars, codecVars>>

\* new(max_level, shutdown_rx) is called, by the factory or directly
StartNew(via, kind, max_level) ==
    /\ pc = "Idle"
    /\ call' = [via |-> via, kind |-> kind, max_level |-> max_level, rx0 |-> shutdown_rx]
    /\ made' = NoMade
    /\ IF kind = "NonBluetoothDevice"
       THEN LET equip == NonBluetoothDevice_new(max_level, shutdown_rx, now)
            IN  /\ new_result' = equip
                /\ shutdown_rx' = equip.rx
                /\ pc' = "NewDone"
                /\ conn' = conn
       ELSE /\ new_result' = NoResult
            /\ pc' = "InNew"
            /\ conn' = "Discovering"
            /\ UNCHANGED shutdown_rx
    /\ UNCHANGED <<deviceVars, codecVars>>

Poll ==
    /\ pc = "InNew"
    /\ conn = "Discovering"
    /\ \E found \in BOOLEAN :
           LET r == discovery_poll(shutdown_rx, found)
           IN  /\ conn' = r.conn
               /\ shutdown_rx' = r.rx
               /\ IF r.err # ""
                  THEN /\ new_result' = NewOutcome(FALSE, NoDevice, r.err, r.rx)
                       /\ pc' = "NewDone"
                  ELSE UNCHANGED <<new_result, pc>>
    /\ UNCHANGED <<call, made, deviceVars, codecVars>>

ConnectFound ==
    /\ pc = "InNew"
    /\ conn = "Found"
    /\ \E linked \in BOOLEAN :
           LET equip == transport_connect(call.kind, call.max_level, shutdown_rx, linked, now)
           IN  /\ new_result' = equip
               /\ conn' = IF equip.ok THEN "Connected" ELSE "Disconnected"
    /\ pc' = "NewDone"
    /\ UNCHANGED <<shutdown_rx, call, made, deviceVars, codecVars>>

\* new() has returned: the factory turns the Result into an Option
Return ==
    /\ pc = "NewDone"
    /\ made' = IF call.via = "factory"
               THEN equipment_type_to_equipment(call.kind, new_result)
               ELSE Direct(call.kind, new_result)
    /\ pc' = "Done"
    /\ UNCHANGED <<shutdown_rx, call, conn, new_result, deviceVars, codecVars>>

\* the caller drops what it was given; the channel lives on
Drop ==
    /\ pc = "Done"
    /\ pc' = "Idle"
    /\ call' = NoCall
    /\ conn' = "Disconnected"
    /\ new_result' = NoResult
    /\ made' = NoMade
    /\ UNCHANGED <<shutdown_rx, deviceVars, codecVars>>

InitNew ==
    /\ now \in 0 .. SmallTicks
    /\ device = NoDevice
    /\ result = [op |-> "", arg |-> 0, ret |-> Ok(FALSE, <<>>)]
    /\ stdout = <<>>
    /\ NewIdle
    /\ CodecIdle

NextNew ==
    \/ SendShutdown
    \/ \E via \in {"new", "factory"}, kind \in EquipmentType, max_level \in Levels :
           StartNew(via, kind, max_level)
    \/ Poll
    \/ ConnectFound
    \/ Return
    \/ Drop
    \/ Tick

SpecNew == InitNew /\ [][NextNew]_vars

----------------------------------------------------------------------------
(* The control-point commands.  The op codes are the source's; the byte    *)
(* layout is the specification's, the codec being in a module the source   *)
(* tree does not hold.                                                     *)

\* the op codes with TargetPower given Stop's value
FTMSControlOpCode_Clash(c) ==
    CASE c = "RequestControl" -> 0
      [] c = "TargetPower" -> 8
      [] c = "Start" -> 7
      [] c = "Stop" -> 8
      [] c = "SpinDownControl" -> 19
      [] c = "TargetCadence" -> 20
      [] c = "Success" -> 128

\* enum FTMSControlOpCode
FTMSControlOpCode(c) ==
    CASE c = "RequestControl" -> 0
      [] c = "TargetPower" -> 5
      [] c = "Start" -> 7
      [] c = "Stop" -> 8
      [] c = "SpinDownControl" -> 19
      [] c = "TargetCadence" -> 20
      [] c = "Success" -> 128

\* enum StopCode
StopCode(c) ==
    CASE c = "Stop" -> 1
      [] c = "Pause" -> 2

ControlCommands ==
    {"RequestControl", "TargetPower", "Start", "Stop", "SpinDownControl", "TargetCadence"}

\* i16::to_le_bytes
to_le_bytes(v) ==
    LET u == IF v < 0 THEN v + U16Range ELSE v
    IN  <<u % U8Range, u \div U8Range>>

\* i16::from_le_bytes
from_le_bytes(b) ==
    LET u == b[1] + U8Range * b[2]
    IN  IF u > I16Max THEN u - U16Range ELSE u

\* one op-code byte, then the parameter of a numeric command
Encode(c) ==
    <<FTMSControlOpCode(c.tag)>> \o
        (CASE c.tag \in {"TargetPower", "TargetCadence"} -> to_le_bytes(c.param)
           [] c.tag = "Stop" -> <<c.param>>
           [] OTHER -> <<>>)

\* the mock receiver: the op code, and the parameter the bytes after it hold
Decode(bytes) ==
    [op |-> bytes[1],
     param |-> IF Len(bytes) = 3 THEN from_le_bytes(SubSeq(bytes, 2, 3))
               ELSE IF Len(bytes) = 2 THEN bytes[2] ELSE 0]

Params ==
    {150}
        \cup (I16Min .. I16Min + CodecSpan)
        \cup (-U8Range - CodecSpan .. -U8Range + CodecSpan)
        \cup (-CodecSpan .. CodecSpan)
        \cup (U8Range - CodecSpan .. U8Range + CodecSpan)
        \cup (I16Max - CodecSpan .. I16Max)

Commands ==
    [tag : {"TargetPower", "TargetCadence"}, param : Params]
        \cup [tag : {"Stop"}, param : {StopCode("Stop"), StopCode("Pause")}]
        \cup [tag : {"RequestControl", "Start", "SpinDownControl"}, param : {0}]

Send ==
    /\ wire = <<>>
    /\ wire' = Encode(cmd)
    /\ UNCHANGED <<cmd, decoded, deviceVars, newVars>>

Receive ==
    /\ wire # <<>>
    /\ decoded = <<>>
    /\ decoded' = <<Decode(wire)>>
    /\ UNCHANGED <<cmd, wire, deviceVars, newVars>>

InitCodec ==
    /\ now = 0
    /\ device = NoDevice
    /\ result = [op |-> "", arg |-> 0, ret |-> Ok(FALSE, <<>>)]
    /\ stdout = <<>>
    /\ NewIdle
    /\ cmd \in Commands
    /\ wire = <<>>
    /\ decoded = <<>>

NextCodec == Send \/ Receive

SpecCodec == InitCodec /\ [][NextCodec]_vars

----------------------------------------------------------------------------
(* Properties of the device's operations (Spec). *)

SetOps == {"set_target_cadence", "set_target_power"}

RangeMessages == {"RPM must be between 1 and", "Watts must be between 1 and"}

IsSetLine(l) == l.text \in {"Setting target RPM on", "Setting level on"}

InRange(v) == v \in 1 .. device.max_level

\* connect prints on every call and stdout is never cut: a connect has
\* returned exactly when its line is there
HasConnected == \E i \in 1 .. Len(stdout) : stdout[i].text = "Connecting to"

\* C1: a set_target_cadence or set_target_power call with a value outside
\* [1, max_level] returns an error naming the range, prints nothing and
\* leaves the device as it was, for every max_level and after any calls.
C1_OutOfRangeRejected ==
    [][\A v \in Inputs :
           (~InRange(v) /\ (SetTargetCadence(v) \/ SetTargetPower(v)))
               => /\ ~result'.ret.ok
                  /\ result'.ret.err.msg \in RangeMessages
                  /\ result'.ret.err.bound = device.max_level
                  /\ stdout' = stdout
                  /\ device' = device]_vars

C1_Witness ==
    /\ result.op = "set_target_power"
    /\ device.max_level < 1
    /\ result.arg = 1
    /\ ~result.ret.ok
    /\ stdout # <<>>

\* C2: a call with a value inside [1, max_level] succeeds, and the elapsed
\* times the successive calls report are non-negative and never decrease.
C2_InRangeSucceedsElapsedMonotone ==
    /\ (result.op \in SetOps /\ InRange(result.arg)) => result.ret.ok
    /\ \A i \in 1 .. Len(stdout) :
           IsSetLine(stdout[i])
               => /\ stdout[i].at >= 0
                  /\ \A j \in i .. Len(stdout) :
                         IsSetLine(stdout[j]) => stdout[i].at <= stdout[j].at

C2_Witness ==
    /\ Len(stdout) = 2
    /\ IsSetLine(stdout[1])
    /\ IsSetLine(stdout[2])
    /\ stdout[1].at < stdout[2].at
    /\ stdout[2].at >= WrapTick
    /\ result.op \in SetOps
    /\ result.ret.ok

\* C5, as claimed: while no connect() has returned true, a call with a value
\* inside [1, max_level] is rejected and nothing is printed.
C5_RejectedUntilConnected ==
    (result.op \in SetOps /\ InRange(result.arg) /\ ~HasConnected)
        => /\ ~result.ret.ok
           /\ \A i \in 1 .. Len(stdout) : ~IsSetLine(stdout[i])

\* C5, amended: the simulated device has no control gate.  A call succeeds
\* exactly when its value is inside [1, max_level], whether or not connect()
\* was called before, and the only error it returns is the range error.
C5_RangeAloneDecides ==
    result.op \in SetOps
        => /\ result.ret.ok <=> InRange(result.arg)
           /\ ~result.ret.ok => result.ret.err.msg \in RangeMessages

C5_Witness ==
    /\ result.op = "set_target_power"
    /\ result.arg = device.max_level
    /\ result.ret.ok
    /\ ~HasConnected
    /\ Len(stdout) = 1
    /\ stdout[1].value = result.arg

\* C6: read() returns Some(record) with every metric zero and time >= 0,
\* after any calls; a target accepted earlier is not in the record.
C6_ReadIsZeroRecord ==
    result.op = "read"
        => /\ result.ret.ok
           /\ Len(result.ret.data) = 1
           /\ LET record == result.ret.data[1]
              IN  /\ record.speed = 0
                  /\ record.cadence = 0
                  /\ record.distance = 0
                  /\ record.resistance = 0
                  /\ record.power = 0
                  /\ record.calories = 0
                  /\ record.heart_rate = 0
                  /\ record.time >= 0

C6_Witness ==
    /\ result.op = "read"
    /\ result.ret.ok
    /\ Len(result.ret.data) = 1
    /\ result.ret.data[1].time > 0
    /\ \E i \in 1 .. Len(stdout) :
           IsSetLine(stdout[i]) /\ stdout[i].value = MaxLevel
    /\ HasConnected

\* C7: connect() returns true and disconnect() returns Ok on every call, in
\* any order, and neither changes the device: every later call returns what
\* it would have returned without them.
C7_ConnectDisconnectNeutral ==
    [][(Connect \/ Disconnect)
           => /\ result'.ret.ok
              /\ Connect => result'.ret.flag
              /\ device' = device
              /\ read(device', now') = read(device, now)
              /\ \A v \in Inputs :
                     /\ set_target_cadence(device', v, now')
                            = set_target_cadence(device, v, now)
                     /\ set_target_power(device', v, now')
                            = set_target_power(device, v, now)]_vars

C7_Witness ==
    /\ result.op = "connect"
    /\ result.ret.ok
    /\ result.ret.flag
    /\ Len(stdout) = 2
    /\ stdout[1].text = "Disconnecting from"
    /\ stdout[2].text = "Connecting to"

\* C8: the time read() returns is the number of whole seconds since the
\* device's start, for every elapsed duration.
C8_TimeIsWholeSeconds ==
    [][Read => result'.ret.data[1].time = as_secs(elapsed(device.start_time, now))]_vars

----------------------------------------------------------------------------
(* Properties of construction (SpecNew). *)

Cancelled(r) == ~r.ok /\ r.err = "cancelled"

\* C3: a transport-backed new() that finds the cancellation signal at a
\* discovery poll fails with the cancellation error there and then; called
\* with the signal already sent, it never finds or connects a peripheral.
C3_CancelledBeforeMatch ==
    /\ [](call.kind \in TransportBacked /\ call.rx0 > 0
              => /\ conn \notin {"Found", "Connected"}
                 /\ pc \in {"NewDone", "Done"} => Cancelled(new_result))
    /\ [][(Poll /\ shutdown_rx > 0)
              => /\ pc' = "NewDone"
                 /\ conn' = "Disconnected"
                 /\ Cancelled(new_result')]_vars

C3_Witness ==
    /\ pc = "Done"
    /\ call.via = "new"
    /\ call.kind = "Iconsole0028Bike"
    /\ call.rx0 > 0
    /\ made.tag = "Err"
    /\ made.err = "cancelled"
    /\ conn = "Disconnected"

\* C4: equipment_type_to_equipment returns Some(equipment) exactly when the
\* variant's new() returned Ok and None exactly when it returned Err, and
\* does not panic; with the signal sent before the call the transport-backed
\* kinds give None, and NonBluetoothDevice gives Some for every max_level.
C4_FactoryMirrorsNew ==
    (pc = "Done" /\ call.via = "factory")
        => /\ made.tag \in {"Some", "None"}
           /\ made.tag = "Some" <=> new_result.ok
           /\ made.tag = "Some" => (made.val = new_result.val /\ made.kind = call.kind)
           /\ (call.kind \in TransportBacked /\ call.rx0 > 0) => made.tag = "None"
           /\ call.kind = "NonBluetoothDevice" => made.tag = "Some"

C4_Witness ==
    /\ pc = "Done"
    /\ call.via = "factory"
    /\ call.kind = "DebugBike"
    /\ call.rx0 > 0
    /\ made.tag = "None"
    /\ Cancelled(new_result)

\* C10: NonBluetoothDevice::new, called directly or by the factory, succeeds
\* and leaves in the channel what was there when it was called.
C10_SimulatedNewIgnoresChannel ==
    (pc \in {"NewDone", "Done"} /\ call.kind = "NonBluetoothDevice")
        => /\ new_result.ok
           /\ new_result.val.max_level = call.max_level
           /\ new_result.rx = call.rx0
           /\ pc = "Done" => made.tag = (IF call.via = "factory" THEN "Some" ELSE "Ok")

C10_Witness ==
    /\ pc = "Done"
    /\ call.via = "factory"
    /\ call.kind = "NonBluetoothDevice"
    /\ call.rx0 = MaxSignals
    /\ made.tag = "Some"
    /\ shutdown_rx = call.rx0

----------------------------------------------------------------------------
(* Properties of the control commands (SpecCodec). *)

\* C9: each control command has its fixed op code, the codes differ from one
\* another and from the Success tag, and TargetPower(w), encoded as the op
\* code and two little-endian bytes and decoded, gives op code 5 and w.
C9_OpCodesAndRoundTrip ==
    /\ FTMSControlOpCode("RequestControl") = 0
    /\ FTMSControlOpCode("TargetPower") = 5
    /\ FTMSControlOpCode("Start") = 7
    /\ FTMSControlOpCode("Stop") = 8
    /\ FTMSControlOpCode("SpinDownControl") = 19
    /\ FTMSControlOpCode("TargetCadence") = 20
    /\ \A a, b \in ControlCommands \cup {"Success"} :
           a # b => FTMSControlOpCode(a) # FTMSControlOpCode(b)
    /\ (wire # <<>> /\ cmd.tag = "TargetPower")
           => /\ Len(wire) = 3
              /\ \A i \in 1 .. 3 : wire[i] \in 0 .. U8Range - 1
    /\ (decoded # <<>> /\ cmd.tag = "TargetPower")
           => /\ decoded[1].op = 5
              /\ decoded[1].param = cmd.param

C9_Witness ==
    /\ cmd = [tag |-> "TargetPower", param |-> 150]
    /\ wire = <<5, 150, 0>>
    /\ decoded = <<[op |-> 5, param |-> 150]>>

====
